---- MODULE Spec2Model ----
(***************************************************************************)
(* State-machine model of tomoto::LDAModel<TermWeight::one>               *)
(* (src/src/TopicModel/LDAModel.hpp): collapsed Gibbs sampling over       *)
(* sharded documents, per-thread replicas of the count state, the         *)
(* end-of-round merge, the hyperparameter optimiser and inference on      *)
(* held-out documents.                                                    *)
(*                                                                         *)
(* Counts are the int32 counts of the unweighted instantiation.  FLOAT    *)
(* quantities are fixed-point integers: an alpha is a multiple of         *)
(* 1/AlphaScale, eta is EtaNum/EtaScale, and every division truncates.    *)
(* Indices of the source are 0-based; TLA+ sequences are 1-based, so      *)
(* docs[id] of the source is docs[id + 1] here.                           *)
(***************************************************************************)
EXTENDS Integers, Sequences, FiniteSets, TLC

(* ----------------------------- bounds ---------------------------------- *)
MaxDocs == 2
MaxWorkers == 2
MaxRounds == 2
MaxFailures == 2
MaxInferIter == 1
MaxInfers == 1
\* rounds of a training followed through the optimiser's schedule
MaxScheduleRounds == 80
MaxShardDocs == 17
MaxParallelDocs == 9

(* ------------------------- program constants --------------------------- *)
\* realV: vocabulary size left by removeStopwords; ids >= realV are out of vocab
realV == 2
\* FLOAT _alpha = 0.1 and FLOAT _eta = 0.01, the constructor's defaults
AlphaScale == 200000
DefaultAlpha == 20000
EtaScale == 100
EtaNum == 1
\* std::max(..., 1e-5f) in optimizeParameters: 1e-5 in units of 1/AlphaScale
AlphaFloor == 2
\* for (size_t i = 0; i < 10; ++i) in optimizeParameters
OptimIterations == 10
\* size_t optimInterval = 10, burnIn = 0
DefaultOptimInterval == 10
DefaultBurnIn == 0
\* pool.getNumWorkers() * 8
ChunksPerWorker == 8
\* scale of the digamma differences
DigammaScale == 200000000
\* a FLOAT that is not a number (0/0)
NaN == -1

(* ------------------------------ inputs --------------------------------- *)
\* documents handed to addDoc / makeDoc: sequences of vocabulary ids
DocPool == { <<>>, <<0, 1>>, <<1, 2>> }
SeedChoices == {1, 6}
OptimIntervalChoices == {0, 1}
BurnInChoices == {1}
KChoices == {2}

(* ------------------------- random generator ---------------------------- *)
\* RANDGEN: a linear congruential generator of full period RngM
RngM == 16
RngA == 5
RngC == 3
RngNext(s) == (RngA * s + RngC) % RngM

(* ------------------------------ state ---------------------------------- *)
VARIABLES
    K,              \* TID K
    alpha,          \* FLOAT alpha (scalar given to the constructor)
    alphas,         \* Eigen vector alphas, one entry per topic
    eta,            \* FLOAT eta, in units of 1/EtaScale
    weight,         \* _TW of the instantiation ILDAModel::create chose
    optimInterval,  \* size_t optimInterval
    burnIn,         \* size_t burnIn
    iterated,       \* TopicModel::iterated: number of completed rounds
    rg,             \* TopicModel::rg, the model's generator
    docs,           \* this->docs: sequence of DocumentLDA
    globalState,    \* this->globalState
    tState,         \* this->tState
    numWorkers,     \* pool.getNumWorkers() of the running train call
    localData,      \* localData[threadId], one replica per pool thread
    rgs,            \* rgs[threadId], one generator per pool thread
    task,           \* res: state of the future of each shard task
    taskThread,     \* pool thread each started task runs on
    pc,             \* position of the coordinator
    roundsLeft,     \* rounds the running train call still has to do
    caught,         \* index in res of the future whose get() threw
    lastError,      \* what the last trainOne call propagated
    failures,       \* task failures so far
    aborted,        \* whether a round of an earlier train call was aborted
    roundStart,     \* the model as it was when the running round began
    twin,           \* the same training under the round-robin schedule
    optimRuns,      \* calls of optimizeParameters so far
    inferOut,       \* held-out documents and temporary state of the last infer
    inferCalls,     \* calls of infer so far
    sampled         \* per document: calls of sampleDocument and resamplings of
                    \* each position in the current round

vars == << K, alpha, alphas, eta, weight, optimInterval, burnIn, iterated, rg, docs,
           globalState, tState, numWorkers, localData, rgs, task, taskThread,
           pc, roundsLeft, caught, lastError, failures, aborted, roundStart,
           twin, optimRuns, inferOut, inferCalls, sampled >>

(* ----------------------------- helpers --------------------------------- *)
Topics == 0 .. (K - 1)
Vocab == 0 .. (realV - 1)
Max(a, b) == IF a < b THEN b ELSE a
Min(a, b) == IF b < a THEN b ELSE a

\* F applied to the value of v (v is evaluated once, before F)
Apply(F(_), v) == CHOOSE r \in {F(x) : x \in {v}} : TRUE

RECURSIVE SumTo(_, _)
\* f[0] + ... + f[n-1]
SumTo(f, n) == IF n = 0 THEN 0 ELSE f[n - 1] + SumTo(f, n - 1)

\* Eigen::Matrix<WeightType>::Zero(K) and ::Zero(K, V)
ZeroVec == [k \in Topics |-> 0]
ZeroState == [numByTopic |-> ZeroVec,
              numByTopicWord |-> [k \in Topics |-> [v \in Vocab |-> 0]]]

(* ------------------------------ sampler -------------------------------- *)
\* int32 counts: updateCnt<false>(val, inc) is val += inc
updateCnt(val, inc) == val + inc

\* addWordTo with the update of ld.numByTopic[tid] left out
addWordToWithoutTopicTotal(ld, doc, vid, tid, INC) ==
    [ld  |-> [ld EXCEPT !.numByTopicWord[tid][vid] = updateCnt(@, INC)],
     doc |-> [doc EXCEPT !.numByTopic[tid] = updateCnt(@, INC)]]

\* addWordTo<INC>: the same amount goes to the document's topic count, the
\* state's topic total and the state's topic-word count
addWordTo(ld, doc, vid, tid, INC) ==
    [ld  |-> [ld EXCEPT !.numByTopic[tid] = updateCnt(@, INC),
                        !.numByTopicWord[tid][vid] = updateCnt(@, INC)],
     doc |-> [doc EXCEPT !.numByTopic[tid] = updateCnt(@, INC)]]

\* one entry of zLikelihood before the prefix sum
zWeight(ld, doc, vid, al, k) ==
    IF al[k] = NaN THEN NaN
    ELSE ((doc.numByTopic[k] * AlphaScale + al[k])
            * (ld.numByTopicWord[k][vid] * EtaScale + eta))
         \div (ld.numByTopic[k] * EtaScale + realV * eta)

RECURSIVE prefixSum(_, _, _, _, _)
\* sample::prefixSum: entry k holds the sum of the entries 0..k
prefixSum(ld, doc, vid, al, k) ==
    LET w == zWeight(ld, doc, vid, al, k)
    IN  IF k = 0 THEN w
        ELSE LET p == prefixSum(ld, doc, vid, al, k - 1)
             IN  IF w = NaN \/ p = NaN THEN NaN ELSE p + w

\* getZLikelihoods: the accumulated likelihood of every topic
getZLikelihoods(ld, doc, vid, al) ==
    [k \in Topics |-> prefixSum(ld, doc, vid, al, k)]

\* sample::sampleFromDiscreteAcc: u uniform in [0, dist[K-1]) from one draw r
\* of the generator, then the smallest k with dist[k] >= u
sampleFromDiscreteAcc(dist, r) ==
    LET total == dist[K - 1]
        u     == r * (total \div RngM)
        hit   == {k \in Topics : dist[k] # NaN /\ dist[k] >= u}
    IN  IF total = NaN \/ hit = {} THEN K - 1
        ELSE CHOOSE k \in hit : \A j \in hit : k <= j

\* the loop body of sampleDocument with addWordTo<-1> left out
sampleTokenWithoutDecrement(st, w, al) ==
    LET vid == st.doc.words[w + 1]
    IN  IF vid >= realV THEN st
        ELSE LET dist == getZLikelihoods(st.ld, st.doc, vid, al)
                 r    == RngNext(st.rng)
                 z    == sampleFromDiscreteAcc(dist, r)
                 doc2 == [st.doc EXCEPT !.Zs[w + 1] = z]
                 inc  == addWordTo(st.ld, doc2, vid, z, 1)
             IN  [doc |-> inc.doc, ld |-> inc.ld, rng |-> r,
                  hits |-> [st.hits EXCEPT ![w + 1] = @ + 1]]

\* one turn of the loop of sampleDocument, for position w (0-based)
sampleToken(st, w, al) ==
    LET vid == st.doc.words[w + 1]
    IN  IF vid >= realV THEN st
        ELSE LET dec  == addWordTo(st.ld, st.doc, vid, st.doc.Zs[w + 1], -1)
                 dist == getZLikelihoods(dec.ld, dec.doc, vid, al)
                 r    == RngNext(st.rng)
                 z    == sampleFromDiscreteAcc(dist, r)
                 doc2 == [dec.doc EXCEPT !.Zs[w + 1] = z]
                 inc  == addWordTo(dec.ld, doc2, vid, z, 1)
             IN  [doc |-> inc.doc, ld |-> inc.ld, rng |-> r,
                  hits |-> [st.hits EXCEPT ![w + 1] = @ + 1]]

RECURSIVE sampleFrom(_, _, _)
sampleFrom(st, w, al) ==
    IF w >= Len(st.doc.words) THEN st
    ELSE Apply(LAMBDA x : sampleFrom(x, w + 1, al), sampleToken(st, w, al))

\* sampleDocument(doc, ld, rgs): resamples every in-vocab position of doc
sampleDocument(doc, ld, rng, al) ==
    sampleFrom([doc |-> doc, ld |-> ld, rng |-> rng,
                hits |-> [p \in DOMAIN doc.words |-> 0]], 0, al)

(* --------------------------- shard tasks -------------------------------- *)
\* no call of sampleDocument on any document of ds yet
NotSampled(ds) ==
    [d \in DOMAIN ds |-> [calls |-> 0, hits |-> [p \in DOMAIN ds[d].words |-> 0]]]

\* chStride = std::min(pool.getNumWorkers() * 8, this->docs.size())
chStrideOf(W, ds) == Min(W * ChunksPerWorker, Len(ds))

\* a shard of one document whatever the number of documents
shardSizeOne(ds, ch, chStride) == 1

\* number of documents of shard ch: (docs.size() - 1 - ch) / chStride + 1
shardSize(ds, ch, chStride) == (Len(ds) - 1 - ch) \div chStride + 1

\* forRandom(N, seed, f): the i-th index it hands to f; a permutation of
\* 0..N-1 fixed by seed
forRandomAt(N, seed, i) == (i + seed) % N

RECURSIVE shardFrom(_, _, _, _, _, _)
\* the forRandom loop of a shard task from its i-th turn up to turn `upTo`
shardFrom(st, ch, chStride, seed, i, upTo) ==
    IF i >= upTo THEN st
    ELSE LET N  == shardSize(st.docs, ch, chStride)
             id == forRandomAt(N, seed, i)
             d  == id * chStride + ch
             r  == sampleDocument(st.docs[d + 1], st.ld, st.rng, st.alphas)
         IN  Apply(LAMBDA x : shardFrom(x, ch, chStride, seed, i + 1, upTo),
                   [st EXCEPT !.docs[d + 1] = r.doc, !.ld = r.ld, !.rng = r.rng,
                              !.sampled[d + 1] =
                                  [calls |-> @.calls + 1,
                                   hits  |-> [p \in DOMAIN @.hits |->
                                                @.hits[p] + r.hits[p]]]])

\* the lambda trainOne enqueues for shard ch, run by a pool thread whose
\* replica is ld and whose generator is rng; it stops after `upTo` documents
\* (all of them unless the task fails on the way)
shardTask(ds, ld, rng, al, ch, chStride, upTo) ==
    LET seed == RngNext(rng)
    IN  shardFrom([docs |-> ds, ld |-> ld, rng |-> seed, alphas |-> al,
                   sampled |-> NotSampled(ds)],
                  ch, chStride, seed, 0, upTo)

(* ------------------------------- merge ---------------------------------- *)
\* template parameter _TW of the instantiation modelled
TW == "one"

\* the same sum without the subtraction of tState
addDeltaWithoutBase(g, l, t) ==
    [numByTopic |-> [k \in Topics |-> g.numByTopic[k] + l.numByTopic[k]],
     numByTopicWord |-> [k \in Topics |-> [v \in Vocab |->
                        g.numByTopicWord[k][v] + l.numByTopicWord[k][v]]]]

\* globalState.x += localData[i].x - tState.x, for both count members
addDelta(g, l, t) ==
    [numByTopic |-> [k \in Topics |->
                        g.numByTopic[k] + (l.numByTopic[k] - t.numByTopic[k])],
     numByTopicWord |-> [k \in Topics |-> [v \in Vocab |->
                        g.numByTopicWord[k][v]
                          + (l.numByTopicWord[k][v] - t.numByTopicWord[k][v])]]]

\* cwiseMax(0) on both count members
cwiseMax0(g) ==
    [numByTopic |-> [k \in Topics |-> Max(g.numByTopic[k], 0)],
     numByTopicWord |-> [k \in Topics |-> [v \in Vocab |->
                        Max(g.numByTopicWord[k][v], 0)]]]

RECURSIVE mergeFrom(_, _, _, _, _)
mergeFrom(g, t, L, i, W) ==
    IF i >= W THEN g
    ELSE Apply(LAMBDA x : mergeFrom(x, t, L, i + 1, W), addDelta(g, L[i], t))

\* the same merge without the tasks that copy globalState into the replicas
mergeStateWithoutCopyBack(G, L, W) ==
    LET summed == mergeFrom(L[0], G, L, 1, W)
        merged == IF TW # "one" THEN cwiseMax0(summed) ELSE summed
    IN  [globalState |-> merged,
         tState      |-> G,
         localData   |-> L]

\* mergeState(pool, globalState, tState, localData)
mergeState(G, L, W) ==
    LET summed == mergeFrom(L[0], G, L, 1, W)
        merged == IF TW # "one" THEN cwiseMax0(summed) ELSE summed
    IN  [globalState |-> merged,
         tState      |-> G,
         localData   |-> [i \in 0 .. (W - 1) |-> merged]]

(* --------------------------- optimiser ---------------------------------- *)
RECURSIVE digammaDiff(_, _)
\* math::digammaT(n + a) - math::digammaT(a) for a count n: the sum of
\* 1 / (a + j) over j < n, in units of 1 / DigammaScale
digammaDiff(n, a) ==
    IF n <= 0 THEN 0
    ELSE DigammaScale \div (a + (n - 1) * AlphaScale) + digammaDiff(n - 1, a)

RECURSIVE calcDigammaSum(_, _, _, _)
\* calcDigammaSum(list, len, alpha) with list(i) = cnt(ds[i])
calcDigammaSum(cnt(_), ds, len, a) ==
    IF len = 0 THEN 0
    ELSE digammaDiff(cnt(ds[len]), a) + calcDigammaSum(cnt, ds, len - 1, a)

\* getSumWordWeight<TermWeight::one>(): this->words.size()
getSumWordWeight(doc) == Len(doc.words)

\* alphas.sum()
alphasSum(al) == IF \E k \in Topics : al[k] = NaN THEN NaN ELSE SumTo(al, K)

\* std::max(nom / denom * alphas(k), 1e-5f); 0/0 is not a number, and
\* std::max(a, b) is a unless a < b
alphaUpdate(a, nom, denom) ==
    IF a = NaN \/ denom = NaN \/ denom = 0 THEN NaN
    ELSE Max((a * nom) \div denom, AlphaFloor)

\* one turn of the outer loop of optimizeParameters
optimizeOnce(al, ds) ==
    LET s     == alphasSum(al)
        denom == IF s = NaN THEN NaN
                 ELSE calcDigammaSum(LAMBDA d : getSumWordWeight(d), ds, Len(ds), s)
    IN  [k \in Topics |->
            IF al[k] = NaN THEN NaN
            ELSE alphaUpdate(al[k],
                    calcDigammaSum(LAMBDA d : d.numByTopic[k], ds, Len(ds), al[k]),
                    denom)]

RECURSIVE optimizeFrom(_, _, _)
optimizeFrom(al, ds, i) ==
    IF i >= OptimIterations THEN al
    ELSE Apply(LAMBDA x : optimizeFrom(x, ds, i + 1), optimizeOnce(al, ds))

\* optimizeParameters(pool, localData, rgs)
optimizeParameters(al, ds) == optimizeFrom(al, ds, 0)

\* the condition with the round counted from 0 in the multiple
optimDueOnRoundIndex(it, bi, oi) == it >= bi /\ oi # 0 /\ it % oi = 0

\* the condition with only its burn-in conjunct
optimDueIgnoringInterval(it, bi, oi) == it >= bi

\* the condition of trainOne under which the optimiser runs
optimDue(it, bi, oi) == it >= bi /\ oi # 0 /\ (it + 1) % oi = 0

(* ------------------------ initial assignments --------------------------- *)
\* a distribution over 0 .. K, one past the last topic
makeGeneratorForInitPastEnd == K

\* makeGeneratorForInit: upper end of uniform_int_distribution<TID>{0, K - 1}
makeGeneratorForInit == K - 1

\* g.theta(rgs): a topic uniform in 0 .. g from one draw r of the generator
theta(g, r) == (r * (g + 1)) \div RngM

\* prepareDoc: zeroed numByTopic, Zs of wordSize zeros
prepareDoc(words) ==
    [words |-> words, Zs |-> [i \in 1 .. Len(words) |-> 0], numByTopic |-> ZeroVec]

\* updateStateWithDoc(g, ld, rgs, doc, i)
updateStateWithDoc(g, st, i) ==
    LET r == RngNext(st.rng)
        z == theta(g, r)
        a == addWordTo(st.ld, [st.doc EXCEPT !.Zs[i + 1] = z], st.doc.words[i + 1], z, 1)
    IN  [doc |-> a.doc, ld |-> a.ld, rng |-> r]

RECURSIVE initFrom(_, _, _)
initFrom(g, st, i) ==
    IF i >= Len(st.doc.words) THEN st
    ELSE IF st.doc.words[i + 1] >= realV THEN initFrom(g, st, i + 1)
    ELSE Apply(LAMBDA x : initFrom(g, x, i + 1), updateStateWithDoc(g, st, i))

\* initializeDocState(doc, nullptr, g, ld, rgs)
initializeDocState(words, g, ld, rng) ==
    initFrom(g, [doc |-> prepareDoc(words), ld |-> ld, rng |-> rng], 0)

RECURSIVE initDocsFrom(_, _, _)
\* the loop of prepare over this->docs, from document i (0-based)
initDocsFrom(g, st, i) ==
    IF i >= Len(st.docs) THEN st
    ELSE LET r == initializeDocState(st.docs[i + 1].words, g, st.ld, st.rng)
         IN  Apply(LAMBDA x : initDocsFrom(g, x, i + 1),
                   [docs |-> [st.docs EXCEPT ![i + 1] = r.doc],
                    ld |-> r.ld, rng |-> r.rng])

(* ------------------------------ readouts -------------------------------- *)
\* every (document, position) pair of ds
Positions(ds) ==
    UNION { {<<d, i>> : i \in 1 .. Len(ds[d].words)} : d \in 1 .. Len(ds) }

\* _getTopicsCount: in-vocab positions of all documents per topic
getTopicsCount(ds) ==
    [k \in Topics |->
        Cardinality({p \in Positions(ds) :
            ds[p[1]].words[p[2]] < realV /\ ds[p[1]].Zs[p[2]] = k})]

\* scale of the fixed-point values getTopicsByDoc returns
ThetaScale == 1000

\* getTopicsByDoc(doc): (n + alpha) / sum with sum = getSumWordWeight() + K * alpha
getTopicsByDoc(doc) ==
    LET sum == getSumWordWeight(doc) * AlphaScale + K * alpha
    IN  [k \in Topics |->
            ((doc.numByTopic[k] * AlphaScale + alpha) * ThetaScale) \div sum]

RECURSIVE drawn(_, _)
\* the generator after n draws
drawn(s, n) == IF n = 0 THEN s ELSE RngNext(drawn(s, n - 1))

(* ------------------ the same training, round-robin ---------------------- *)
RECURSIVE roundTasks(_, _, _, _)
\* the shard tasks ch, ch + 1, ... of one round, shard c run by pool thread
\* sched[c]; tasks of one thread run in the order they were enqueued
roundTasks(tw, ch, C, sched) ==
    IF ch >= C THEN tw
    ELSE LET t == sched[ch]
             r == shardTask(tw.docs, tw.localData[t], tw.rgs[t], tw.alphas,
                            ch, C, shardSize(tw.docs, ch, C))
         IN  Apply(LAMBDA x : roundTasks(x, ch + 1, C, sched),
                   [tw EXCEPT !.docs = r.docs, !.localData[t] = r.ld,
                              !.rgs[t] = r.rng])

\* shard ch on pool thread ch % W
roundRobin(C, W) == [ch \in 0 .. (C - 1) |-> ch % W]

\* one whole round of trainOne under that schedule
twinRound(tw, W, it, bi, oi) ==
    LET C == chStrideOf(W, tw.docs)
        merge(a) ==
            LET put(m) ==
                    [a EXCEPT !.globalState = m.globalState,
                              !.localData = m.localData,
                              !.alphas = IF optimDue(it, bi, oi)
                                         THEN optimizeParameters(a.alphas, a.docs)
                                         ELSE a.alphas]
            IN  Apply(put, mergeState(a.globalState, a.localData, W))
    IN  Apply(merge, roundTasks(tw, 0, C, roundRobin(C, W)))

\* ok: no task has failed so far.  discarded: a TrainingError ended a round
\* at whose start the twin was the model, the twin left that round out, and
\* every later call of train had one worker
NoTwin == [ok |-> FALSE, discarded |-> FALSE, docs |-> <<>>, globalState |-> <<>>,
           localData |-> <<>>, rgs |-> <<>>, alphas |-> <<>>]

(* ------------------------------- Init ----------------------------------- *)
\* the model as the constructor leaves it
Init ==
    /\ K \in KChoices
    /\ alpha = DefaultAlpha
    /\ alphas = [k \in 0 .. (K - 1) |-> alpha]
    /\ eta = EtaNum
    /\ weight = "one"
    /\ optimInterval = DefaultOptimInterval
    /\ burnIn = DefaultBurnIn
    /\ iterated = 0
    /\ rg \in SeedChoices
    /\ docs = <<>>
    /\ globalState = <<>>
    /\ tState = <<>>
    /\ numWorkers = 0
    /\ localData = <<>>
    /\ rgs = <<>>
    /\ task = <<>>
    /\ taskThread = <<>>
    /\ pc = "new"
    /\ roundsLeft = 0
    /\ caught = 0
    /\ lastError = "none"
    /\ failures = 0
    /\ aborted = FALSE
    /\ roundStart = <<>>
    /\ twin = NoTwin
    /\ optimRuns = 0
    /\ inferOut = <<>>
    /\ inferCalls = 0
    /\ sampled = <<>>

(* ----------------------------- set-up ----------------------------------- *)
\* addDoc(words)
addDoc(words) ==
    /\ pc = "new"
    /\ Len(docs) < MaxDocs
    /\ docs' = Append(docs, [words |-> words, Zs |-> <<>>, numByTopic |-> <<>>])
    /\ UNCHANGED << K, alpha, eta, weight, alphas, optimInterval, burnIn, iterated, rg,
                    globalState, tState, numWorkers, localData, rgs, task,
                    taskThread, pc, roundsLeft, caught, lastError, failures, aborted,
                    roundStart, twin, optimRuns, inferOut, inferCalls, sampled >>

\* setOptimInterval(_optimInterval)
setOptimInterval(v) ==
    /\ pc = "new"
    /\ optimInterval' = v
    /\ UNCHANGED << K, alpha, eta, weight, alphas, burnIn, iterated, rg, docs,
                    globalState, tState, numWorkers, localData, rgs, task,
                    taskThread, pc, roundsLeft, caught, lastError, failures, aborted,
                    roundStart, twin, optimRuns, inferOut, inferCalls, sampled >>

\* setBurnInIteration(iteration)
setBurnInIteration(v) ==
    /\ pc = "new"
    /\ burnIn' = v
    /\ UNCHANGED << K, alpha, eta, weight, alphas, optimInterval, iterated, rg, docs,
                    globalState, tState, numWorkers, localData, rgs, task,
                    taskThread, pc, roundsLeft, caught, lastError, failures, aborted,
                    roundStart, twin, optimRuns, inferOut, inferCalls, sampled >>

\* prepare(initDocs = true): initGlobalState zeroes the counts, then every
\* document draws its initial assignments from the model's generator
prepare ==
    /\ pc = "new"
    /\ \E r \in {initDocsFrom(makeGeneratorForInit,
                              [docs |-> docs, ld |-> ZeroState, rng |-> rg], 0)} :
           /\ docs' = r.docs
           /\ globalState' = r.ld
           /\ rg' = r.rng
           /\ twin' = [ok |-> TRUE, discarded |-> FALSE,
                       docs |-> r.docs, globalState |-> r.ld,
                       localData |-> <<>>, rgs |-> <<>>, alphas |-> alphas]
    /\ pc' = "idle"
    /\ UNCHANGED << K, alpha, eta, weight, alphas, optimInterval, burnIn, iterated,
                    tState, numWorkers, localData, rgs, task, taskThread,
                    roundsLeft, caught, lastError, failures, aborted, roundStart,
                    optimRuns, inferOut, inferCalls, sampled >>

(* ------------------------------ training -------------------------------- *)

Failed == {"TrainingError", "OtherError"}
\* chStride of the round whose futures are in res
chStride == Cardinality(DOMAIN task)
Outstanding == {ch \in DOMAIN task : task[ch] \in {"queued", "running"}}

\* train(iteration, numWorkers): a pool of W threads, one replica of the
\* global state and one generator seeded from the model's per thread
train(W, iteration) ==
    /\ pc = "idle"
    /\ iteration >= 1
    /\ iterated + iteration <= MaxRounds
    /\ numWorkers' = W
    /\ localData' = [t \in 0 .. (W - 1) |-> globalState]
    /\ rgs' = [t \in 0 .. (W - 1) |-> drawn(rg, t + 1)]
    /\ rg' = drawn(rg, W)
    /\ roundsLeft' = iteration
    /\ lastError' = "none"
    /\ task' = <<>>
    /\ taskThread' = <<>>
    /\ twin' = IF twin.ok \/ (twin.discarded /\ W = 1)
               THEN [twin EXCEPT !.localData = [t \in 0 .. (W - 1) |-> twin.globalState],
                                 !.rgs = [t \in 0 .. (W - 1) |-> drawn(rg, t + 1)]]
               ELSE NoTwin
    /\ pc' = "trainOne"
    /\ inferOut' = <<>>
    /\ UNCHANGED << K, alpha, eta, weight, alphas, optimInterval, burnIn, iterated, docs,
                    globalState, tState, caught, failures, aborted, roundStart,
                    optimRuns, inferCalls, sampled >>

\* trainOne, up to the end of the loop that enqueues the shard tasks
trainOneEnqueue ==
    /\ pc = "trainOne"
    /\ LET C == chStrideOf(numWorkers, docs)
       IN  /\ task' = [ch \in 0 .. (C - 1) |-> "queued"]
           /\ taskThread' = [ch \in 0 .. (C - 1) |-> 0]
    /\ roundStart' = [globalState |-> globalState, docs |-> docs]
    /\ sampled' = NotSampled(docs)
    /\ pc' = "get"
    /\ UNCHANGED << K, alpha, eta, weight, alphas, optimInterval, burnIn, iterated, rg, docs,
                    globalState, tState, numWorkers, localData, rgs,
                    roundsLeft, caught, lastError, failures, aborted, twin,
                    optimRuns, inferOut, inferCalls >>

\* an idle pool thread takes the task at the head of the queue
taskStart(t) ==
    /\ Outstanding # {}
    /\ \A ch \in DOMAIN task : task[ch] = "running" => taskThread[ch] # t
    /\ \E ch \in DOMAIN task :
          /\ task[ch] = "queued"
          /\ \A c \in DOMAIN task : task[c] = "queued" => ch <= c
          /\ task' = [task EXCEPT ![ch] = "running"]
          /\ taskThread' = [taskThread EXCEPT ![ch] = t]
    /\ UNCHANGED << K, alpha, eta, weight, alphas, optimInterval, burnIn, iterated, rg, docs,
                    globalState, tState, numWorkers, localData, rgs, pc,
                    roundsLeft, caught, lastError, failures, aborted, roundStart, twin,
                    optimRuns, inferOut, inferCalls, sampled >>

\* what the task of shard ch has done when it ends after upTo documents
taskEffect(ch, upTo) ==
    LET t == taskThread[ch]
    IN  \E r \in {shardTask(docs, localData[t], rgs[t], alphas, ch, chStride, upTo)} :
            /\ docs' = r.docs
            /\ localData' = [localData EXCEPT ![t] = r.ld]
            /\ rgs' = [rgs EXCEPT ![t] = r.rng]
            /\ sampled' = [d \in DOMAIN sampled |->
                              [calls |-> sampled[d].calls + r.sampled[d].calls,
                               hits  |-> [p \in DOMAIN sampled[d].hits |->
                                            sampled[d].hits[p] + r.sampled[d].hits[p]]]]

\* the task of shard ch runs to its end
taskFinish(ch) ==
    /\ task[ch] = "running"
    /\ taskEffect(ch, shardSize(docs, ch, chStride))
    /\ task' = [task EXCEPT ![ch] = "done"]
    /\ UNCHANGED << K, alpha, eta, weight, alphas, optimInterval, burnIn, iterated, rg,
                    globalState, tState, numWorkers, taskThread, pc,
                    roundsLeft, caught, lastError, failures, aborted, roundStart, twin,
                    optimRuns, inferOut, inferCalls >>

\* the task of shard ch throws after upTo documents
taskThrow(ch, kind, upTo) ==
    /\ task[ch] = "running"
    /\ failures < MaxFailures
    /\ ~aborted
    /\ taskEffect(ch, upTo)
    /\ task' = [task EXCEPT ![ch] = kind]
    /\ failures' = failures + 1
    /\ twin' = [twin EXCEPT !.ok = FALSE]
    /\ UNCHANGED << K, alpha, eta, weight, alphas, optimInterval, burnIn, iterated, rg,
                    globalState, tState, numWorkers, taskThread, pc,
                    roundsLeft, caught, lastError, aborted, roundStart,
                    optimRuns, inferOut, inferCalls >>

\* a loop over res that waits for no future
resNotWaitedFor == TRUE

\* for (auto&& r : res) r.get() has returned from every future
resGot == \A ch \in DOMAIN task : task[ch] = "done"

\* trainOne after every r.get() returned: merge, optimiser when due; then
\* train counts the round
trainOneMerge ==
    /\ pc = "get"
    /\ resGot
    /\ \E m \in {mergeState(globalState, localData, numWorkers)} :
          /\ globalState' = m.globalState
          /\ tState' = m.tState
          /\ localData' = m.localData
    /\ LET due == optimDue(iterated, burnIn, optimInterval)
       IN  /\ alphas' = IF due THEN optimizeParameters(alphas, docs) ELSE alphas
           /\ optimRuns' = IF due THEN optimRuns + 1 ELSE optimRuns
    /\ twin' = IF twin.ok \/ twin.discarded
               THEN twinRound(twin, numWorkers, iterated, burnIn, optimInterval)
               ELSE twin
    /\ iterated' = iterated + 1
    /\ roundsLeft' = roundsLeft - 1
    /\ pc' = IF roundsLeft = 1 THEN "idle" ELSE "trainOne"
    /\ UNCHANGED << K, alpha, eta, weight, optimInterval, burnIn, rg, docs, numWorkers, rgs,
                    task, taskThread, caught, lastError, failures, aborted, roundStart,
                    inferOut, inferCalls, sampled >>

\* an exception leaves trainOne and ends the train call
propagate(kind) ==
    /\ lastError' = kind
    /\ roundsLeft' = 0
    /\ aborted' = TRUE
    /\ pc' = IF Outstanding # {} THEN "unwound" ELSE "idle"
    /\ twin' = IF /\ kind = "TrainingError"
                  /\ twin.globalState = roundStart.globalState
                  /\ twin.docs = roundStart.docs
               THEN [twin EXCEPT !.discarded = TRUE]
               ELSE NoTwin

\* r.get() of future j throws a TrainingError: the handler is entered
getThrowsTrainingError(j) ==
    /\ pc = "get"
    /\ task[j] = "TrainingError"
    /\ \A i \in DOMAIN task : i < j => task[i] = "done"
    /\ pc' = "catch"
    /\ caught' = j
    /\ UNCHANGED << K, alpha, eta, weight, alphas, optimInterval, burnIn, iterated, rg, docs,
                    globalState, tState, numWorkers, localData, rgs, task,
                    taskThread, roundsLeft, lastError, failures, aborted, roundStart,
                    twin, optimRuns, inferOut, inferCalls, sampled >>

\* r.get() of future j throws something the handler does not catch
getThrowsOther(j) ==
    /\ pc = "get"
    /\ task[j] = "OtherError"
    /\ \A i \in DOMAIN task : i < j => task[i] = "done"
    /\ propagate("OtherError")
    /\ UNCHANGED << K, alpha, eta, weight, alphas, optimInterval, burnIn, iterated, rg, docs,
                    globalState, tState, numWorkers, localData, rgs, task,
                    taskThread, caught, failures, roundStart,
                    optimRuns, inferOut, inferCalls, sampled >>

\* the handler got every valid future: throw e
catchRethrow ==
    /\ pc = "catch"
    /\ \A i \in DOMAIN task : i > caught => task[i] = "done"
    /\ propagate("TrainingError")
    /\ UNCHANGED << K, alpha, eta, weight, alphas, optimInterval, burnIn, iterated, rg, docs,
                    globalState, tState, numWorkers, localData, rgs, task,
                    taskThread, caught, failures, roundStart,
                    optimRuns, inferOut, inferCalls, sampled >>

\* r.get() of future i throws inside the handler
catchThrows(i) ==
    /\ pc = "catch"
    /\ i > caught
    /\ task[i] \in Failed
    /\ \A m \in DOMAIN task : (caught < m /\ m < i) => task[m] = "done"
    /\ propagate(task[i])
    /\ UNCHANGED << K, alpha, eta, weight, alphas, optimInterval, burnIn, iterated, rg, docs,
                    globalState, tState, numWorkers, localData, rgs, task,
                    taskThread, caught, failures, roundStart,
                    optimRuns, inferOut, inferCalls, sampled >>

(* ------------------------------ inference ------------------------------- *)
\* RANDGEN rgc{}: a default-constructed generator
DefaultSeed == 1

\* a write that goes to this->globalState as well
storeTmpStateInModel(st, new) == [st EXCEPT !.model = new, !.tmp = new]

\* a write to tmpState, the copy _infer made of this->globalState
storeTmpState(st, new) == [st EXCEPT !.tmp = new]

\* the documents of docFirst .. docLast before initializeDocState
heldOutDocs(held) ==
    [i \in 1 .. Len(held) |-> [words |-> held[i], Zs |-> <<>>, numByTopic |-> <<>>]]

RECURSIVE inferRounds(_, _, _, _, _)
\* the loop for (i = 0; i < maxIter; ++i) of _infer<true>
inferRounds(tw, i, maxIter, W, sched) ==
    IF i >= maxIter THEN tw
    ELSE LET merge(a) ==
                 LET put(m) == [a EXCEPT !.globalState = m.globalState,
                                         !.localData = m.localData]
                 IN  Apply(put, mergeState(a.globalState, a.localData, W))
         IN  Apply(LAMBDA x : inferRounds(x, i + 1, maxIter, W, sched),
                   Apply(merge, roundTasks(tw, 0, chStrideOf(W, tw.docs), sched)))

\* _infer<true>: all held-out documents against one temporary state
inferTogether(held, maxIter, W, sched) ==
    LET st0 == [model |-> globalState, tmp |-> globalState]
        rounds(ini) ==
            LET start(st1) ==
                    inferRounds([docs |-> ini.docs,
                                 globalState |-> st1.tmp,
                                 localData |-> [t \in 0 .. (W - 1) |-> st1.tmp],
                                 rgs |-> [t \in 0 .. (W - 1) |-> drawn(ini.rng, t + 1)],
                                 alphas |-> alphas],
                                0, maxIter, W, sched)
                finish(st1) ==
                    LET out(run) ==
                            LET st2 == storeTmpState(st1, run.globalState)
                            IN  [model |-> st2.model, tmp |-> <<st2.tmp>>,
                                 docs |-> run.docs]
                    IN  Apply(out, Apply(start, st1))
            IN  Apply(finish, storeTmpState(st0, ini.ld))
    IN  Apply(rounds, initDocsFrom(makeGeneratorForInit,
                                   [docs |-> heldOutDocs(held), ld |-> st0.tmp,
                                    rng |-> DefaultSeed], 0))

RECURSIVE sampleTimes(_, _, _)
\* maxIter calls of sampleDocument on one document
sampleTimes(st, n, al) ==
    IF n = 0 THEN st
    ELSE Apply(LAMBDA x : sampleTimes(x, n - 1, al),
               sampleDocument(st.doc, st.ld, st.rng, al))

RECURSIVE inferEach(_, _, _)
\* _infer<false>: one task per held-out document, each with its own copy of
\* the global state and its own default-constructed generator
inferEach(st, i, maxIter) ==
    IF i > Len(st.docs) THEN st
    ELSE LET one == [model |-> st.model, tmp |-> st.model]
             ini == initializeDocState(st.docs[i].words, makeGeneratorForInit,
                                       one.tmp, DefaultSeed)
             out(run) ==
                 LET done == storeTmpState(one, run.ld)
                 IN  [model |-> done.model, tmp |-> Append(st.tmp, done.tmp),
                      docs |-> [st.docs EXCEPT ![i] = run.doc]]
         IN  Apply(LAMBDA x : inferEach(x, i + 1, maxIter),
                   Apply(out, sampleTimes(ini, maxIter, alphas)))

inferSeparately(held, maxIter) ==
    inferEach([model |-> globalState, tmp |-> <<>>, docs |-> heldOutDocs(held)],
              1, maxIter)

\* infer(documents, maxIter, tolerance, numWorkers, together); the returned
\* log-likelihoods are left out
infer(held, maxIter, W, together, sched) ==
    /\ pc = "idle"
    /\ inferCalls < MaxInfers
    /\ \E r \in {IF together THEN inferTogether(held, maxIter, W, sched)
                              ELSE inferSeparately(held, maxIter)} :
          /\ globalState' = r.model
          /\ inferOut' = [docs |-> r.docs, tmpState |-> r.tmp]
    /\ inferCalls' = inferCalls + 1
    /\ UNCHANGED << K, alpha, eta, weight, alphas, optimInterval, burnIn, iterated, rg, docs,
                    tState, numWorkers, localData, rgs, task, taskThread, pc,
                    roundsLeft, caught, lastError, failures, aborted,
                    roundStart, twin, optimRuns, sampled >>

(* --------------------------- specification ------------------------------ *)
WorkerChoices == 1 .. MaxWorkers

SetUp ==
    \/ \E w \in DocPool : addDoc(w)
    \/ \E v \in OptimIntervalChoices : setOptimInterval(v)
    \/ prepare

Train ==
    \/ \E W \in WorkerChoices, n \in 1 .. MaxRounds : train(W, n)
    \/ trainOneEnqueue
    \/ \E t \in 0 .. (numWorkers - 1) : taskStart(t)
    \/ \E ch \in DOMAIN task : taskFinish(ch)
    \/ trainOneMerge

Failure ==
    \/ \E ch \in DOMAIN task, kind \in Failed,
          upTo \in 0 .. MaxDocs : upTo <= shardSize(docs, ch, chStride)
                                  /\ taskThrow(ch, kind, upTo)
    \/ \E j \in DOMAIN task : getThrowsTrainingError(j)
    \/ \E j \in DOMAIN task : getThrowsOther(j)
    \/ catchRethrow
    \/ \E i \in DOMAIN task : catchThrows(i)

\* training with task failures
Next == SetUp \/ Train \/ Failure

Spec == Init /\ [][Next]_vars

\* training without failures, with every setting of the optimiser
NextOptim ==
    \/ SetUp
    \/ \E v \in BurnInChoices : setBurnInIteration(v)
    \/ Train

SpecOptim == Init /\ [][NextOptim]_vars

\* held-out documents handed to infer
HeldOutChoices == { << <<0, 1>> >>, << <<1, 2>>, <<0>> >> }

Infer ==
    \E held \in HeldOutChoices, maxIter \in 0 .. MaxInferIter,
       W \in WorkerChoices, together \in BOOLEAN :
        \E sched \in [0 .. (chStrideOf(W, held) - 1) -> 0 .. (W - 1)] :
            /\ (~together => \A c \in DOMAIN sched : sched[c] = 0)
            /\ infer(held, maxIter, W, together, sched)

\* training without failures, and inference between train calls
NextInfer == SetUp \/ Train \/ Infer

SpecInfer == Init /\ [][NextInfer]_vars

(* ------------------------ prepare(initDocs = false) --------------------- *)
\* DocumentLDA::update(ptr, K): numByTopic zeroed, then one unit per stored
\* Zs[i], for every i below Zs.size()
update(doc) ==
    [doc EXCEPT !.numByTopic =
        [k \in Topics |-> Cardinality({i \in 1 .. Len(doc.Zs) : doc.Zs[i] = k})]]

\* updateDocs(): update on every document
updateDocs(ds) == [d \in 1 .. Len(ds) |-> update(ds[d])]

\* prepare(false) on a model that holds its assignments and counts (a loaded
\* one): initGlobalState(false) keeps the global counts, updateDocs rebuilds
\* the documents' counts
prepareInitDocsFalse ==
    /\ pc = "idle"
    /\ docs' = updateDocs(docs)
    /\ twin' = NoTwin
    /\ UNCHANGED << K, alpha, eta, weight, alphas, optimInterval, burnIn, iterated,
                    rg, globalState, tState, numWorkers, localData, rgs, task,
                    taskThread, pc, roundsLeft, caught, lastError, failures,
                    aborted, roundStart, optimRuns, inferOut, inferCalls, sampled >>

NextReload == SetUp \/ Train \/ prepareInitDocsFalse

SpecReload == Init /\ [][NextReload]_vars

(* --------------------------- ILDAModel::create -------------------------- *)
\* arguments handed to create; "tf" is a TermWeight outside the enumeration
TermWeightChoices == {"one", "idf", "pmi", "tf"}
CreateKChoices == {0, 1, 2}
CreateAlphaChoices == {0 - DefaultAlpha, 0, 1, DefaultAlpha}
CreateEtaChoices == {0 - EtaNum, 0, EtaNum}

\* before create: no model
NoModel ==
    /\ pc = "none"
    /\ K = 0 /\ alpha = 0 /\ alphas = <<>> /\ eta = 0 /\ weight = "none"
    /\ optimInterval = DefaultOptimInterval /\ burnIn = DefaultBurnIn
    /\ iterated = 0 /\ rg = 0 /\ docs = <<>> /\ globalState = <<>>
    /\ tState = <<>> /\ numWorkers = 0 /\ localData = <<>> /\ rgs = <<>>
    /\ task = <<>> /\ taskThread = <<>> /\ roundsLeft = 0 /\ caught = 0
    /\ lastError = "none" /\ failures = 0 /\ aborted = FALSE
    /\ roundStart = <<>> /\ twin = NoTwin /\ optimRuns = 0
    /\ inferOut = <<>> /\ inferCalls = 0 /\ sampled = <<>>

\* ILDAModel::create(_weight, _K, _alpha, _eta, _rg): SWITCH_TW returns a new
\* LDAModel<_weight>(_K, _alpha, _eta, _rg) for the three enumerators and
\* nullptr otherwise; the constructor stores its arguments
create(_weight, _K, _alpha, _eta, _rg) ==
    /\ pc = "none"
    /\ IF _weight \in {"one", "idf", "pmi"}
       THEN /\ weight' = _weight
            /\ K' = _K
            /\ alpha' = _alpha
            /\ eta' = _eta
            /\ rg' = _rg
            /\ alphas' = [k \in 0 .. (_K - 1) |-> _alpha]
            /\ pc' = "new"
       ELSE /\ pc' = "nullptr"
            /\ UNCHANGED << weight, K, alpha, eta, rg, alphas >>
    /\ UNCHANGED << optimInterval, burnIn, iterated, docs, globalState, tState,
                    numWorkers, localData, rgs, task, taskThread, roundsLeft,
                    caught, lastError, failures, aborted, roundStart, twin,
                    optimRuns, inferOut, inferCalls, sampled >>

NextCreate ==
    \/ \E w \in TermWeightChoices, k \in CreateKChoices, a \in CreateAlphaChoices,
          e \in CreateEtaChoices, s \in SeedChoices : create(w, k, a, e, s)
    \/ \E w \in DocPool : addDoc(w)
    \/ \E v \in OptimIntervalChoices : setOptimInterval(v)

SpecCreate == NoModel /\ [][NextCreate]_vars

(* ---------------- the optimiser's schedule over many rounds -------------- *)
ScheduleIntervalChoices == {0, 3, 10}
ScheduleBurnInChoices == {0, 5, 50}

\* train(1, 1): one worker, so the shard tasks run in the order they were
\* enqueued on the only pool thread; then the merge and the optimiser when due
trainSerialRound ==
    /\ pc = "idle"
    /\ iterated < MaxScheduleRounds
    /\ \E r \in {twinRound([docs |-> docs, globalState |-> globalState,
                             localData |-> [t \in {0} |-> globalState],
                             rgs |-> [t \in {0} |-> drawn(rg, 1)],
                             alphas |-> alphas],
                            1, iterated, burnIn, optimInterval)} :
          /\ docs' = r.docs
          /\ globalState' = r.globalState
          /\ localData' = r.localData
          /\ rgs' = r.rgs
          /\ alphas' = r.alphas
    /\ tState' = globalState
    /\ rg' = drawn(rg, 1)
    /\ numWorkers' = 1
    /\ optimRuns' = IF optimDue(iterated, burnIn, optimInterval)
                    THEN optimRuns + 1 ELSE optimRuns
    /\ iterated' = iterated + 1
    /\ UNCHANGED << K, alpha, eta, weight, optimInterval, burnIn, task, taskThread, pc,
                    roundsLeft, caught, lastError, failures, aborted, roundStart,
                    twin, inferOut, inferCalls, sampled >>

NextSchedule ==
    \/ \E w \in DocPool : addDoc(w)
    \/ \E v \in ScheduleIntervalChoices : setOptimInterval(v)
    \/ \E v \in ScheduleBurnInChoices : setBurnInIteration(v)
    \/ prepare
    \/ trainSerialRound

SpecSchedule == Init /\ [][NextSchedule]_vars

(* ------------------- rounds over corpora of many documents --------------- *)
\* the words of the documents of the corpus, in turn
CorpusWords == << <<0, 1>>, <<1, 2>>, <<>>, <<2>> >>

\* the numbers of workers a corpus of N documents is trained with
ShardWorkerChoices(N) == IF N <= MaxParallelDocs THEN WorkerChoices ELSE {1}

\* addDoc(words) for the next document of the corpus
addCorpusDoc ==
    /\ pc = "new"
    /\ Len(docs) < MaxShardDocs
    /\ docs' = Append(docs, [words |-> CorpusWords[(Len(docs) % Len(CorpusWords)) + 1],
                             Zs |-> <<>>, numByTopic |-> <<>>])
    /\ UNCHANGED << K, alpha, eta, weight, alphas, optimInterval, burnIn, iterated, rg,
                    globalState, tState, numWorkers, localData, rgs, task,
                    taskThread, pc, roundsLeft, caught, lastError, failures, aborted,
                    roundStart, twin, optimRuns, inferOut, inferCalls, sampled >>

NextShard ==
    \/ addCorpusDoc
    \/ prepare
    \/ \E W \in ShardWorkerChoices(Len(docs)) : train(W, 1)
    \/ trainOneEnqueue
    \/ \E t \in 0 .. (numWorkers - 1) : taskStart(t)
    \/ \E ch \in DOMAIN task : taskFinish(ch)
    \/ trainOneMerge

SpecShard == Init /\ [][NextShard]_vars

(* ------------------------------- claims --------------------------------- *)
\* after prepare and outside a round: between rounds
BetweenRounds == pc \in {"idle", "trainOne"}

\* after prepare or after a completed round: no round of the current call of
\* train has started, or the last round was merged
AfterRound ==
    /\ BetweenRounds
    /\ \A ch \in DOMAIN task : task[ch] = "done"
    /\ task = <<>> => ~aborted

\* the in-vocab positions of document doc whose topic is k
positionsOf(doc, k) ==
    {i \in 1 .. Len(doc.words) : doc.words[i] < realV /\ doc.Zs[i] = k}

inVocab(doc) == {i \in 1 .. Len(doc.words) : doc.words[i] < realV}

\* C1: between rounds, for every topic k the row sum of numByTopicWord[k]
\* over the vocabulary equals numByTopic[k]
C1_RowSumsMatchTotals ==
    BetweenRounds =>
        \A k \in Topics :
            SumTo(globalState.numByTopicWord[k], realV) = globalState.numByTopic[k]

C1_Witness ==
    /\ pc = "idle"
    /\ iterated >= 1
    /\ numWorkers >= 2
    /\ Len(docs) >= 2
    /\ globalState # roundStart.globalState

\* C2: once prepared, every document's numByTopic sums to its number of
\* in-vocab tokens, and numByTopic[k] is the number of its in-vocab positions
\* assigned to k: a resampled token moves one unit from its old topic to its
\* new one
C2_DocTotals ==
    pc # "new" =>
        \A d \in 1 .. Len(docs) :
            /\ SumTo(docs[d].numByTopic, K) = Cardinality(inVocab(docs[d]))
            /\ \A k \in Topics :
                  docs[d].numByTopic[k] = Cardinality(positionsOf(docs[d], k))

C2_Witness ==
    /\ pc = "idle"
    /\ iterated >= 1
    /\ \E d \in 1 .. Len(docs) :
          /\ docs[d].Zs # roundStart.docs[d].Zs
          /\ \E i \in 1 .. Len(docs[d].words) : docs[d].words[i] >= realV

\* C3: after prepare and after every completed round, getCountByTopic()[k]
\* equals the global numByTopic[k] for every topic k
C3_CountByTopicMatches ==
    AfterRound => \A k \in Topics : getTopicsCount(docs)[k] = globalState.numByTopic[k]

\* C4: after prepare and after every completed round, every entry of the
\* global numByTopic and numByTopicWord is >= 0
C4_CountsNonNegative ==
    AfterRound =>
        \A k \in Topics :
            /\ globalState.numByTopic[k] >= 0
            /\ \A v \in Vocab : globalState.numByTopicWord[k][v] >= 0

\* C5: once prepared, every in-vocab position of every document has a topic
\* in 0 .. K - 1
C5_TopicsInRange ==
    pc # "new" =>
        \A d \in 1 .. Len(docs) : \A i \in inVocab(docs[d]) :
            0 <= docs[d].Zs[i] /\ docs[d].Zs[i] < K

C5_Witness ==
    /\ pc = "idle"
    /\ iterated >= 1
    /\ \E d \in 1 .. Len(docs) : \E i \in inVocab(docs[d]) :
          docs[d].Zs[i] = K - 1 /\ roundStart.docs[d].Zs[i] # K - 1

\* C6: between rounds of a training without failures, the global state and
\* the documents are the ones the round-robin schedule produces from the same
\* seeds, worker count and documents, whatever thread ran each shard task
C6_ScheduleIndependent ==
    (twin.ok /\ BetweenRounds) =>
        twin.globalState = globalState /\ twin.docs = docs

\* C7: a call of infer leaves the global state, the alphas and the training
\* documents as they were
C7_InferLeavesModel ==
    [][inferCalls' # inferCalls =>
          globalState' = globalState /\ alphas' = alphas /\ docs' = docs]_vars

C7_Witness ==
    /\ inferCalls >= 1
    /\ iterated >= 1
    /\ \E i \in 1 .. Len(inferOut.tmpState) : inferOut.tmpState[i] # globalState
    /\ \E d \in 1 .. Len(inferOut.docs) : inVocab(inferOut.docs[d]) # {}

\* C8: once a TrainingError has left the round, the global counts are the
\* ones of the start of the round, and every later global state is the one
\* the same training reaches when the aborted round is left out
C8_AbortDiscardsRound ==
    /\ (pc = "idle" /\ lastError = "TrainingError") =>
          globalState = roundStart.globalState
    /\ (twin.discarded /\ BetweenRounds) => globalState = twin.globalState

\* C9: when an error has left the round, no task of the round is queued or
\* running
C9_JoinedBeforeError ==
    lastError # "none" => Outstanding = {}

\* C10: with optimInterval = 0 every alphas[k] is the constructor's alpha,
\* after any number of rounds and for any burnIn
C10_AlphasFixed ==
    optimInterval = 0 => \A k \in Topics : alphas[k] = alpha

C10_Witness ==
    /\ optimInterval = 0
    /\ burnIn >= 1
    /\ iterated > burnIn
    /\ \E d \in 1 .. Len(docs) : inVocab(docs[d]) # {}

\* C11: in the round after r completed rounds the optimiser runs exactly when
\* r >= burnIn, optimInterval > 0 and r + 1 is a multiple of optimInterval,
\* and a round in which it does not run leaves alphas unchanged; with
\* burnIn = 50 and optimInterval = 10 it runs in the rounds 60, 70 and 80
\* (counted from 1) and in no other round up to 80
C11_OptimiserSchedule ==
    [][iterated' = iterated + 1 =>
          /\ (optimRuns' = optimRuns + 1) <=>
                (/\ iterated >= burnIn
                 /\ optimInterval > 0
                 /\ \E q \in 1 .. (iterated + 1) : q * optimInterval = iterated + 1)
          /\ optimRuns' \in {optimRuns, optimRuns + 1}
          /\ optimRuns' = optimRuns => alphas' = alphas
          /\ (burnIn = 50 /\ optimInterval = 10) =>
                ((optimRuns' = optimRuns + 1) <=> (iterated' \in {60, 70, 80}))]_vars

C11_Witness ==
    /\ burnIn = 50
    /\ optimInterval = 10
    /\ iterated = 80
    /\ optimRuns = 3
    /\ \E k \in Topics : alphas[k] # alpha

\* C12: create gives no model when K < 1, alpha <= 0, eta <= 0 or the term
\* weight is none of one, idf, pmi: a model that exists has a valid
\* configuration
C12_CreateRejectsInvalid ==
    pc = "new" =>
        /\ K >= 1
        /\ alpha > 0
        /\ eta > 0
        /\ weight \in {"one", "idf", "pmi"}

\* C13: a position whose token id is >= V is counted nowhere: after prepare
\* with initDocs true or false and after every round, each document's
\* numByTopic[k] is the number of its in-vocab positions assigned to k (P1),
\* and the global numByTopic sums to the number of in-vocab tokens (P3)
C13_OutOfVocabUncounted ==
    pc # "new" =>
        /\ \A d \in 1 .. Len(docs) : \A k \in Topics :
              docs[d].numByTopic[k] = Cardinality(positionsOf(docs[d], k))
        /\ SumTo(globalState.numByTopic, K)
              = Cardinality({p \in Positions(docs) : docs[p[1]].words[p[2]] < realV})

\* C14: getTopicsByDoc(d)[k] is (d.numByTopic[k] + alphas[k]) divided by
\* (getSumWordWeight(d) + the sum of alphas), with the current alphas
C14_TopicsByDocUsesAlphas ==
    (BetweenRounds /\ \A k \in Topics : alphas[k] # NaN) =>
        \A d \in 1 .. Len(docs) : \A k \in Topics :
            getTopicsByDoc(docs[d])[k]
              = ((docs[d].numByTopic[k] * AlphaScale + alphas[k]) * ThetaScale)
                    \div (getSumWordWeight(docs[d]) * AlphaScale + SumTo(alphas, K))

\* C15: between rounds every alphas[k] is at least 1e-5, for every corpus
C15_AlphasAtLeastFloor ==
    BetweenRounds => \A k \in Topics : alphas[k] >= AlphaFloor

\* the orderings of the replicas 0 .. W - 1
replicaOrders(W) ==
    {f \in [0 .. (W - 1) -> 0 .. (W - 1)] :
        \A i, j \in 0 .. (W - 1) : i # j => f[i] # f[j]}

\* C16: the merge sets, elementwise for numByTopic and numByTopicWord,
\* G' = L_0 + sum over i >= 1 of (L_i - G), which with integer counts is
\* G + sum over all i of (L_i - G), and gives the same G' for every ordering
\* of the replicas
C16_MergeFormula ==
    [][(pc = "get" /\ iterated' = iterated + 1) =>
          /\ \A k \in Topics :
                /\ globalState'.numByTopic[k]
                     = localData[0].numByTopic[k]
                       + SumTo([i \in 0 .. (numWorkers - 2) |->
                                  localData[i + 1].numByTopic[k]
                                    - globalState.numByTopic[k]], numWorkers - 1)
                /\ globalState'.numByTopic[k]
                     = globalState.numByTopic[k]
                       + SumTo([i \in 0 .. (numWorkers - 1) |->
                                  localData[i].numByTopic[k]
                                    - globalState.numByTopic[k]], numWorkers)
                /\ \A v \in Vocab :
                      globalState'.numByTopicWord[k][v]
                        = globalState.numByTopicWord[k][v]
                          + SumTo([i \in 0 .. (numWorkers - 1) |->
                                     localData[i].numByTopicWord[k][v]
                                       - globalState.numByTopicWord[k][v]],
                                  numWorkers)
          /\ \A f \in replicaOrders(numWorkers) :
                mergeState(globalState,
                           [i \in 0 .. (numWorkers - 1) |-> localData[f[i]]],
                           numWorkers).globalState = globalState']_vars

\* a merged round of two workers in which both replicas were written
C16_Witness ==
    /\ pc = "idle"
    /\ lastError = "none"
    /\ iterated >= 1
    /\ numWorkers = 2
    /\ chStride = 2
    /\ \A ch \in DOMAIN task : task[ch] = "done"
    /\ taskThread[0] # taskThread[1]
    /\ \A d \in 1 .. Len(docs) : docs[d].Zs # roundStart.docs[d].Zs
    /\ tState = roundStart.globalState
    /\ globalState # tState

C17_WitnessMerged ==
    /\ pc = "trainOne"
    /\ ~aborted
    /\ numWorkers = 2
    /\ roundsLeft = 1
    /\ iterated = 1
    /\ globalState # tState
    /\ \A t \in 0 .. (numWorkers - 1) : localData[t] = globalState

\* C18: a round over N documents with W workers enqueues min(8 * W, N)
\* tasks; the task of shard c calls sampleDocument once on each document
\* index c, c + C, c + 2C, ... below N and on no other; when the round is
\* merged every document has been sampled exactly once and every position
\* exactly once if it is in-vocab and never otherwise
C18_ShardsPartitionDocs ==
    [][/\ (pc = "trainOne" /\ pc' = "get") =>
             Cardinality(DOMAIN task')
               = (IF 8 * numWorkers < Len(docs) THEN 8 * numWorkers ELSE Len(docs))
       /\ \A c \in DOMAIN task :
             (task[c] = "running" /\ task'[c] = "done") =>
                \A d \in 0 .. (Len(docs) - 1) :
                    sampled'[d + 1].calls - sampled[d + 1].calls
                      = (IF d % chStride = c THEN 1 ELSE 0)
       /\ (pc = "get" /\ iterated' = iterated + 1) =>
             \A d \in 1 .. Len(docs) :
                /\ sampled[d].calls = 1
                /\ \A p \in 1 .. Len(docs[d].words) :
                      sampled[d].hits[p]
                        = (IF docs[d].words[p] < realV THEN 1 ELSE 0)]_vars

\* a merged round of one worker over more documents than shards, some of
\* them with out-of-vocabulary words, some empty
C18_Witness ==
    /\ pc = "idle"
    /\ iterated = 1
    /\ numWorkers = 1
    /\ Len(docs) = 2 * ChunksPerWorker + 1
    /\ chStride = ChunksPerWorker
    /\ \A c \in DOMAIN task : task[c] = "done"
    /\ \A d \in 1 .. Len(docs) : sampled[d].calls = 1

\* the documents the task of shard c calls sampleDocument on, thread t
\* running it
docsSampledBy(c, t) ==
    LET r == shardTask(docs, localData[t], rgs[t], alphas, c, chStride,
                       shardSize(docs, c, chStride))
    IN  {d \in 1 .. Len(docs) : r.sampled[d].calls > 0}

\* C19: under every interleaving, two tasks running at the same moment are
\* on different pool threads, hence write different replicas, and sample
\* disjoint sets of documents; the global state is written, and the round
\* merged and counted, only when no task of the round is queued or running
C19_NoSharedWrites ==
    [][/\ \A c1, c2 \in DOMAIN task :
             (c1 # c2 /\ task[c1] = "running" /\ task[c2] = "running") =>
                /\ taskThread[c1] # taskThread[c2]
                /\ docsSampledBy(c1, taskThread[c1])
                      \cap docsSampledBy(c2, taskThread[c2]) = {}
       /\ (globalState' # globalState \/ tState' # tState
             \/ alphas' # alphas \/ iterated' # iterated) =>
             \A c \in DOMAIN task : task[c] \notin {"queued", "running"}]_vars

\* two tasks running at the same moment, each about to change its document;
\* the round is merged later
C19_Witness ==
    /\ pc = "get"
    /\ numWorkers = 2
    /\ chStride = 2
    /\ task[0] = "running" /\ task[1] = "running"
    /\ docsSampledBy(0, taskThread[0]) = {1}
    /\ docsSampledBy(1, taskThread[1]) = {2}

\* C20: after every round completed once a round was aborted by a
\* TrainingError, the row sums of numByTopicWord equal numByTopic, every
\* global count is >= 0 and numByTopic equals getCountByTopic()
C20_ResumableAfterAbort ==
    (twin.discarded /\ AfterRound) =>
        \A k \in Topics :
            /\ SumTo([v \in Vocab |-> globalState.numByTopicWord[k][v]], realV)
                  = globalState.numByTopic[k]
            /\ globalState.numByTopic[k] >= 0
            /\ \A v \in Vocab : globalState.numByTopicWord[k][v] >= 0
            /\ globalState.numByTopic[k] = getTopicsCount(docs)[k]

\* the positions of all documents of ds whose word is v and whose topic is k
tokensOf(ds, k, v) ==
    {p \in Positions(ds) : ds[p[1]].words[p[2]] = v /\ ds[p[1]].Zs[p[2]] = k}

\* C21: after prepare and after every completed round, for every topic k and
\* every word v < realV the global numByTopicWord[k][v] is the number of
\* positions of all documents whose word is v and whose topic is k, with
\* any number of workers and under every schedule
C21_TopicWordCountsExact ==
    AfterRound =>
        \A k \in Topics : \A v \in Vocab :
            globalState.numByTopicWord[k][v] = Cardinality(tokensOf(docs, k, v))

====
